---- MODULE Spec2Model ----
(***************************************************************************)
(* Path resolution over a Terraform provider schema, as implemented in     *)
(* packages/cdktf-cli/bin/cmds/handlers.ts (getResourceAtPath,             *)
(* getBlockTypeAtPath, getAttributeTypeAtPath, resolveAttribute,           *)
(* getTypeAtPath, getDesiredType).                                         *)
(*                                                                         *)
(* JavaScript values are tagged records (field js), so that typeof,        *)
(* Array.isArray and truthiness can be decided:                            *)
(*   Null, Undefined          the two absences                             *)
(*   TypeErr                  an uncaught TypeError leaving the function   *)
(*   Str(s)                   a string                                     *)
(*   Arr(a, b)                a two-element array                          *)
(*   Dict(f)                  a plain object used as a name -> value map   *)
(*   records with js = "object" and named fields: Schema, BlockType,       *)
(*   Attribute                                                             *)
(* A path string is a sequence of lexical atoms: ".", "[]", "Provider"     *)
(* and identifiers that contain none of the three.  Names are schema       *)
(* identifiers; none of them is a member of Object.prototype.              *)
(***************************************************************************)
EXTENDS Integers, Sequences, FiniteSets, TLC

Null == [js |-> "null"]
Undefined == [js |-> "undefined"]
TypeErr == [js |-> "throw"]
Unset == [js |-> "unset"]      \* a local that has not been assigned yet
Str(s) == [js |-> "string", s |-> s]
Arr(a, b) == [js |-> "array", items |-> <<a, b>>]
Dict(f) == [js |-> "object", props |-> f]

\* !v for the values that occur: null and undefined are falsy
Falsy(v) == v.js \in {"null", "undefined"}
IsArray(v) == v.js = "array"
IsString(v) == v.js = "string"

\* obj.hasOwnProperty(key) and obj[key] on a name -> value map
HasOwn(d, key) == key \in DOMAIN d.props
Get(d, key) == IF key \in DOMAIN d.props THEN d.props[key] ELSE Undefined

(***************************************************************************)
(* Strings as atom sequences.                                              *)
(***************************************************************************)
RECURSIVE Cat(_)
\* the string an atom sequence spells
Cat(toks) == IF toks = <<>> THEN "" ELSE Head(toks) \o Cat(Tail(toks))

RECURSIVE SplitFrom(_, _, _)
\* the scan behind split: cur is the segment being read, acc those closed
SplitFrom(toks, cur, acc) ==
  IF toks = <<>> THEN Append(acc, cur)
  ELSE IF Head(toks) = "." THEN SplitFrom(Tail(toks), <<>>, Append(acc, cur))
  ELSE SplitFrom(Tail(toks), Append(cur, Head(toks)), acc)

\* path.split("."): always at least one (possibly empty) segment
Split(toks) == SplitFrom(toks, <<>>, <<>>)

\* s.endsWith(suffix) for a suffix that is one atom
EndsWith(toks, suffix) == toks # <<>> /\ toks[Len(toks)] = suffix

RECURSIVE ReplaceFirst(_, _)
\* s.replace(marker, ""): removes the first occurrence only
ReplaceFirst(toks, marker) ==
  IF toks = <<>> THEN <<>>
  ELSE IF Head(toks) = marker THEN Tail(toks)
  ELSE <<Head(toks)>> \o ReplaceFirst(Tail(toks), marker)

\* parts.shift() used as a property key: undefined is coerced to "undefined"
ShiftKey(parts) == IF parts = <<>> THEN "undefined" ELSE Cat(Head(parts))
\* parts after parts.shift()
ShiftRest(parts) == IF parts = <<>> THEN <<>> ELSE Tail(parts)

(***************************************************************************)
(* The provider schema handed to the resolver.                             *)
(***************************************************************************)
Attr(t) == [js |-> "object", type |-> t, optional |-> TRUE]
Block(attrs, blocks) == [attributes |-> Dict(attrs), block_types |-> Dict(blocks)]
BlockTypeOf(mode, b) == [js |-> "object", nesting_mode |-> mode, block |-> b, max_items |-> 1]
SchemaOf(v, b) == [js |-> "object", version |-> v, block |-> b]

TagsBlock == BlockTypeOf("list", Block([id |-> Attr(Str("string"))], <<>>))

\* a nested block whose attribute tags is shadowed by its own block tags
NetworkBlock ==
  BlockTypeOf("list",
    Block([id |-> Attr(Str("number")),
           tags |-> Attr(Str("string")),
           ingress |-> Attr(Arr(Str("list"),
                        Arr(Str("object"), Dict([id |-> Str("bool")]))))],
          [tags |-> TagsBlock]))

\* managed resource aws_instance; attribute network is shadowed by block network
InstanceResource ==
  SchemaOf(1,
    Block([id |-> Attr(Str("string")),
           tags |-> Attr(Arr(Str("map"), Str("string"))),
           network |-> Attr(Str("string")),
           ingress |-> Attr(Arr(Str("set"),
                        Arr(Str("object"),
                            Dict([network |-> Str("string"),
                                  id |-> Arr(Str("list"), Str("number")),
                                  tags |-> Arr(Str("list"),
                                     Arr(Str("object"), Dict([id |-> Str("number")])))]))))],
          [network |-> NetworkBlock]))

\* data source aws_instance: same name as the managed resource, other types
InstanceData ==
  SchemaOf(0,
    Block([id |-> Attr(Str("number")),
           tags |-> Attr(Arr(Str("list"), Str("string"))),
           network |-> Attr(Arr(Str("map"),
                         Arr(Str("object"), Dict([id |-> Str("string")]))))],
          <<>>))

\* data source aws_ami, with no managed resource of that name
AmiData ==
  SchemaOf(0,
    Block([id |-> Attr(Str("string")),
           tags |-> Attr(Arr(Str("object"), Dict([id |-> Str("string")])))],
          <<>>))

AwsProviderBlock ==
  SchemaOf(0,
    Block([id |-> Attr(Str("string")),
           tags |-> Attr(Arr(Str("set"), Str("string")))],
          [network |-> TagsBlock]))

AwsKey == "registry.terraform.io/hashicorp/aws"
GoogleKey == "registry.terraform.io/hashicorp/google"

\* the aws entry has a provider block, the google entry has none
ProviderSchema ==
  [js |-> "object",
   provider_schemas |-> Dict(
     (AwsKey :> [js |-> "object",
                 provider |-> AwsProviderBlock,
                 resource_schemas |-> Dict([aws_instance |-> InstanceResource]),
                 data_source_schemas |-> Dict([aws_instance |-> InstanceData,
                                               aws_ami |-> AmiData])])
     @@
     (GoogleKey :> [js |-> "object",
                    provider |-> Undefined,
                    resource_schemas |-> Dict([google_instance |-> InstanceData]),
                    data_source_schemas |-> Dict(<<>>)]))]

\* a schema document that carries the google provider only
GoogleOnlySchema ==
  [js |-> "object",
   provider_schemas |-> Dict(
     (GoogleKey :> [js |-> "object",
                    provider |-> Undefined,
                    resource_schemas |-> Dict([google_instance |-> InstanceData]),
                    data_source_schemas |-> Dict(<<>>)]))]

\* getFullProviderName of ./provider: short provider name -> schema key
ShortNames == [aws |-> AwsKey, google |-> GoogleKey]
getFullProviderName(schema, providerName) ==
  IF providerName \in DOMAIN ShortNames
     /\ HasOwn(schema.provider_schemas, ShortNames[providerName])
  THEN Str(ShortNames[providerName])
  ELSE Undefined

(***************************************************************************)
(* getResourceAtPath: Null, TypeErr, or [resource, parts].                 *)
(***************************************************************************)
Located(r, ps) == [js |-> "object", resource |-> r, parts |-> ps]

\* FullResourceName without the provider prefix
FullResourceName_Mut(providerName, resourceName) == resourceName

\* `${providerName}_${resourceName}`
FullResourceName(providerName, resourceName) ==
  providerName \o "_" \o resourceName

\* SelectResources that ignores the data flag
SelectResources_Mut(provider, isDataSource) == provider.resource_schemas

\* isDataSource ? provider.data_source_schemas : provider.resource_schemas
SelectResources(provider, isDataSource) ==
  IF isDataSource THEN provider.data_source_schemas
                  ELSE provider.resource_schemas

\* the resource lookup left unchecked
ResourceMissing_Mut(resource) == FALSE

\* if (!resource) return null
ResourceMissing(resource) == Falsy(resource)

getResourceAtPath(schema, path) ==
  LET parts0 == Split(path)
      isDataSource == Cat(parts0[1]) = "data"
      parts1 == IF isDataSource THEN Tail(parts0) ELSE parts0
      providerName == Cat(Head(parts1))
      parts2 == Tail(parts1)
      hasResourceName == parts2 # <<>>
      resourceToks == IF hasResourceName THEN Head(parts2) ELSE <<>>
      resourceName == IF hasResourceName THEN Cat(resourceToks) ELSE "undefined"
      parts == ShiftRest(parts2)
      fullProviderName == getFullProviderName(schema, providerName)
      fullResourceName == FullResourceName(providerName, resourceName)
      provider == Get(schema.provider_schemas, fullProviderName.s)
      resources == SelectResources(provider, isDataSource)
      resource == Get(resources, fullResourceName)
  IN  IF Len(parts0) < 2 THEN Null
      ELSE IF Falsy(fullProviderName) THEN Null
      ELSE IF Falsy(provider) THEN Null
      ELSE IF ~hasResourceName THEN TypeErr   \* undefined.endsWith
      ELSE IF EndsWith(resourceToks, "Provider")
           THEN Located(provider.provider, parts)
      ELSE IF ResourceMissing(resource) THEN Null
      ELSE IF Len(parts) = 0 THEN Null
      ELSE Located(resource, parts)

(***************************************************************************)
(* Inputs.                                                                 *)
(***************************************************************************)
MaxRest == 3        \* segments after the provider/resource pair
MaxMarkers == 2     \* "[]" markers appended to the final segment

Schemas == {ProviderSchema, GoogleOnlySchema}

EntryPoints == {"getBlockTypeAtPath", "getAttributeTypeAtPath",
                "getTypeAtPath", "getDesiredType"}

\* leading segments: nothing, a lone segment, or [data.]provider.local
Heads ==
  { <<>>,
    << <<"aws_instance">> >>,
    << <<"data">>, <<"aws">> >>,
    << <<"data">>, <<"aws_ami">> >>,
    << <<"aws">>, <<"instance">> >>,
    << <<"aws">>, <<"ami">> >>,
    << <<"aws">>, <<"aws", "Provider">> >>,
    << <<"google">>, <<"Provider">> >>,
    << <<"nope">>, <<"Provider">> >>,
    << <<"data">>, <<"aws">>, <<"instance">> >>,
    << <<"data">>, <<"aws">>, <<"ami">> >> }

RestNames == {"tags", "ingress", "network", "id"}

RECURSIVE SeqsUpTo(_, _)
SeqsUpTo(S, n) ==
  IF n = 0 THEN { <<>> }
  ELSE LET shorter == SeqsUpTo(S, n - 1)
       IN  shorter \cup { Append(q, x) : q \in shorter, x \in S }

Rests == SeqsUpTo({ <<n>> : n \in RestNames }, MaxRest)

RECURSIVE Markers(_)
Markers(n) == IF n = 0 THEN <<>> ELSE <<"[]">> \o Markers(n - 1)

RECURSIVE Join(_)
\* the path string whose "."-separated segments are segs
Join(segs) ==
  IF segs = <<>> THEN <<>>
  ELSE IF Len(segs) = 1 THEN Head(segs)
  ELSE Head(segs) \o <<".">> \o Join(Tail(segs))

Paths == { Join(h \o r) \o Markers(m) : h \in Heads, r \in Rests, m \in 0..MaxMarkers }

(***************************************************************************)
(* One resolution call at a time, stepped through its loops.               *)
(***************************************************************************)
VARIABLES
  schema,         \* the ProviderSchema (scope.providerSchema), read-only
  fn,             \* the entry point being executed
  path,           \* its path argument
  pc,             \* position inside the entry point
  resource,       \* resourceSchema.resource
  parts,          \* the shared, destructively consumed segment list
  currentSchema,  \* loop variable of getBlockTypeAtPath / getTypeAtPath
  att,            \* the attribute handed to resolveAttribute
  currentAtt,     \* loop variable of resolveAttribute
  attributeType,  \* getDesiredType: what getTypeAtPath returned
  blocks,         \* names of the block_types entries descended so far
  logged,         \* getDesiredType wrote its console.log diagnostic
  result          \* the value returned (or TypeErr) once pc = "done"

vars == <<schema, fn, path, pc, resource, parts, currentSchema, att,
          currentAtt, attributeType, blocks, logged, result>>

Init ==
  /\ schema \in Schemas
  /\ fn = "none"
  /\ path = <<>>
  /\ pc = "idle"
  /\ resource = Undefined
  /\ parts = <<>>
  /\ currentSchema = Undefined
  /\ att = Unset
  /\ currentAtt = Undefined
  /\ attributeType = Unset
  /\ blocks = <<>>
  /\ logged = FALSE
  /\ result = Undefined

\* a caller invokes one of the exported functions
Call(f, p) ==
  /\ pc = "idle"
  /\ fn' = f
  /\ path' = p
  /\ pc' = "call"
  /\ UNCHANGED <<schema, resource, parts, currentSchema, att, currentAtt,
                 attributeType, blocks, logged, result>>

\* any entry point on any path of the input space
Invoke == pc = "idle" /\ \E f \in EntryPoints, p \in Paths : Call(f, p)

\* the caller takes the returned value; nothing survives the call
Return ==
  /\ pc = "done"
  /\ fn' = "none"
  /\ path' = <<>>
  /\ pc' = "idle"
  /\ resource' = Undefined
  /\ parts' = <<>>
  /\ currentSchema' = Undefined
  /\ att' = Unset
  /\ currentAtt' = Undefined
  /\ attributeType' = Unset
  /\ blocks' = <<>>
  /\ logged' = FALSE
  /\ result' = Undefined
  /\ UNCHANGED schema

\* the value v leaves the entry point
Finish(v) == pc' = "done" /\ result' = v

\* getTypeAtPath returns v: to its caller, or into getDesiredType
TypeReturn(v) ==
  IF fn = "getDesiredType"
  THEN pc' = "classify" /\ attributeType' = v /\ UNCHANGED result
  ELSE Finish(v) /\ UNCHANGED attributeType

\* the call of getResourceAtPath that opens every entry point
Locate ==
  /\ pc = "call"
  /\ LET resourceSchema == getResourceAtPath(schema, path)
     IN  IF resourceSchema = TypeErr
         THEN Finish(TypeErr) /\ UNCHANGED <<resource, parts, currentSchema, attributeType>>
         ELSE IF Falsy(resourceSchema)
         THEN /\ IF fn \in {"getTypeAtPath", "getDesiredType"}
                 THEN TypeReturn(Null)
                 ELSE Finish(Null) /\ UNCHANGED attributeType
              /\ UNCHANGED <<resource, parts, currentSchema>>
         ELSE /\ resource' = resourceSchema.resource
              /\ parts' = resourceSchema.parts
              /\ currentSchema' = IF fn = "getAttributeTypeAtPath"
                                  THEN Undefined ELSE resourceSchema.resource
              /\ pc' = CASE fn = "getBlockTypeAtPath" -> "blockLoop"
                         [] fn = "getAttributeTypeAtPath" -> "attribute"
                         [] OTHER -> "typeLoop"
              /\ UNCHANGED <<result, attributeType>>
  /\ UNCHANGED <<schema, fn, path, att, currentAtt, blocks, logged>>

\* a while loop in place of the do-while: the test comes first
DoWhileEnters_Mut(ps) == Len(ps) > 0

\* do { ... } while (parts.length > 0): the body runs before the first test
DoWhileEnters(ps) == TRUE

\* getBlockTypeAtPath, one pass of its do-while loop
BlockLoopStep ==
  /\ pc = "blockLoop"
  /\ LET part == ShiftKey(parts)
     IN  /\ parts' = ShiftRest(parts)
         /\ IF ~DoWhileEnters(parts)
            THEN Finish(currentSchema) /\ UNCHANGED <<currentSchema, blocks>>
            ELSE IF Falsy(currentSchema)
               \/ ~HasOwn(currentSchema.block.block_types, part)
            THEN Finish(Null) /\ UNCHANGED <<currentSchema, blocks>>
            ELSE /\ currentSchema' = Get(currentSchema.block.block_types, part)
                 /\ blocks' = Append(blocks, part)
                 /\ IF Len(parts') > 0
                    THEN UNCHANGED <<pc, result>>
                    ELSE Finish(currentSchema')
  /\ UNCHANGED <<schema, fn, path, resource, att, currentAtt, attributeType, logged>>

\* WrongArity that only rejects the empty remainder
WrongArity_Mut(ps) == Len(ps) < 1

\* if (parts.length !== 1) return null
WrongArity(ps) == Len(ps) # 1

\* Project that unwraps list and set descriptors only
Project_Mut(attribute, p) ==
  IF ~Falsy(attribute) /\ IsArray(attribute.type) /\ EndsWith(p, "[]")
     /\ attribute.type.items[1] \in {Str("list"), Str("set")}
  THEN [attribute EXCEPT !.type = attribute.type.items[2]]
  ELSE attribute

\* the "[]" projection at the end of getAttributeTypeAtPath
Project(attribute, p) ==
  IF ~Falsy(attribute) /\ IsArray(attribute.type) /\ EndsWith(p, "[]")
  THEN [attribute EXCEPT !.type = attribute.type.items[2]]
  ELSE attribute

\* parts[0].replace("[]", "")
AttributeName(seg) == Cat(ReplaceFirst(seg, "[]"))

\* getAttributeTypeAtPath after getResourceAtPath succeeded
AttributeBody ==
  /\ pc = "attribute"
  /\ IF Falsy(resource)
     THEN Finish(TypeErr)       \* resource.block of undefined
     ELSE LET attributes == resource.block.attributes
              attributeName == AttributeName(parts[1])
              attribute == Get(attributes, attributeName)
          IN  IF WrongArity(parts)
              THEN Finish(Null)
              ELSE Finish(Project(attribute, path))
  /\ UNCHANGED <<schema, fn, path, resource, parts, currentSchema, att,
                 currentAtt, attributeType, blocks, logged>>

\* SegmentKind with the two lookups in the opposite order
SegmentKind_Mut(cur, part) ==
  IF ~Falsy(cur) /\ HasOwn(cur.block.attributes, part) THEN "attribute"
  ELSE IF ~Falsy(cur) /\ HasOwn(cur.block.block_types, part) THEN "block"
  ELSE "none"

\* which of the two lookups of getTypeAtPath takes the segment
SegmentKind(cur, part) ==
  IF ~Falsy(cur) /\ HasOwn(cur.block.block_types, part) THEN "block"
  ELSE IF ~Falsy(cur) /\ HasOwn(cur.block.attributes, part) THEN "attribute"
  ELSE "none"

\* getTypeAtPath, one pass of its do-while loop
TypeLoopStep ==
  /\ pc = "typeLoop"
  /\ LET part == ShiftKey(parts)
     IN  /\ parts' = ShiftRest(parts)
         /\ IF ~DoWhileEnters(parts)
            THEN /\ TypeReturn(currentSchema)
                 /\ UNCHANGED <<currentSchema, blocks, att>>
            ELSE IF SegmentKind(currentSchema, part) = "block"
            THEN /\ currentSchema' = Get(currentSchema.block.block_types, part)
                 /\ blocks' = Append(blocks, part)
                 /\ IF Len(parts') > 0
                    THEN UNCHANGED <<pc, result, attributeType>>
                    ELSE TypeReturn(currentSchema')
                 /\ UNCHANGED att
            ELSE IF SegmentKind(currentSchema, part) = "attribute"
            THEN /\ att' = Get(currentSchema.block.attributes, part)
                 /\ pc' = "resolveAttribute"
                 /\ UNCHANGED <<currentSchema, blocks, result, attributeType>>
            ELSE /\ TypeReturn(Null)
                 /\ UNCHANGED <<currentSchema, blocks, att>>
  /\ UNCHANGED <<schema, fn, path, resource, currentAtt, logged>>

\* resolveAttribute up to its loop
ResolveAttributeEntry ==
  /\ pc = "resolveAttribute"
  /\ IF Len(parts) = 0
     THEN TypeReturn(att.type) /\ UNCHANGED currentAtt
     ELSE /\ currentAtt' = att.type
          /\ pc' = "attLoop"
          /\ UNCHANGED <<result, attributeType>>
  /\ UNCHANGED <<schema, fn, path, resource, parts, currentSchema, att,
                 blocks, logged>>

\* IsObjectCollection that accepts any collection kind, map included
IsObjectCollection_Mut(t) ==
  /\ IsArray(t)
  /\ Len(t.items) = 2
  /\ IsArray(t.items[2])
  /\ t.items[2].items[1] = Str("object")

\* currentAtt is [list|set, [object, members]]
IsObjectCollection(t) ==
  /\ IsArray(t)
  /\ Len(t.items) = 2
  /\ t.items[1] \in {Str("set"), Str("list")}
  /\ IsArray(t.items[2])
  /\ t.items[2].items[1] = Str("object")

\* resolveAttribute, one pass of its do-while loop and the return after it
AttLoopStep ==
  /\ pc = "attLoop"
  /\ LET part == ShiftKey(parts)
     IN  /\ parts' = ShiftRest(parts)
         /\ IF IsObjectCollection(currentAtt)
            THEN /\ currentAtt' = Get(currentAtt.items[2].items[2], part)
                 /\ IF Len(parts') > 0
                    THEN UNCHANGED <<pc, result, attributeType>>
                    ELSE TypeReturn(currentAtt')
            ELSE TypeReturn(Null) /\ UNCHANGED currentAtt
  /\ UNCHANGED <<schema, fn, path, resource, currentSchema, att, blocks, logged>>

\* DesiredOf with the block branch handing the block back
DesiredOf_Mut(t) ==
  IF Falsy(t) THEN Str("dynamic")
  ELSE IF IsString(t) THEN t
  ELSE IF IsArray(t) THEN t
  ELSE IF "version" \in DOMAIN t THEN Str("dynamic")
  ELSE t

\* the value getDesiredType returns for what getTypeAtPath gave it
DesiredOf(t) ==
  IF Falsy(t) THEN Str("dynamic")
  ELSE IF IsString(t) THEN t
  ELSE IF IsArray(t) THEN t
  ELSE IF "version" \in DOMAIN t THEN Str("dynamic")
  ELSE Str("dynamic")

\* only the last branch of getDesiredType writes to the console
LogsBlock(t) ==
  ~Falsy(t) /\ ~IsString(t) /\ ~IsArray(t) /\ "version" \notin DOMAIN t

\* getDesiredType after getTypeAtPath returned
Classify ==
  /\ pc = "classify"
  /\ Finish(DesiredOf(attributeType))
  /\ logged' = LogsBlock(attributeType)
  /\ UNCHANGED <<schema, fn, path, resource, parts, currentSchema, att,
                 currentAtt, attributeType, blocks>>

Next ==
  \/ Invoke
  \/ Locate
  \/ BlockLoopStep
  \/ AttributeBody
  \/ TypeLoopStep
  \/ ResolveAttributeEntry
  \/ AttLoopStep
  \/ Classify
  \/ Return

Spec == Init /\ [][Next]_vars

TypeOK ==
  /\ pc \in {"idle", "call", "blockLoop", "attribute", "typeLoop",
             "resolveAttribute", "attLoop", "classify", "done"}
  /\ fn \in EntryPoints \cup {"none"}

(***************************************************************************)
(* Vocabulary of the properties.                                           *)
(***************************************************************************)
Absent(v) == v \in {Null, Undefined}
Done(f) == pc = "done" /\ fn = f
Dynamic == Str("dynamic")

\* the path string spelled segment by segment
PathIs(segs) == path = Join(segs)

\* how the caller's path reads: [data.]<provider>.<local>.<remaining...>
ShapeOf(p) ==
  LET segs == Split(p)
      data == segs[1] = <<"data">>
      after == IF data THEN Tail(segs) ELSE segs
  IN  [hasData |-> data,
       provider |-> IF Len(after) >= 1 THEN Cat(after[1]) ELSE "",
       hasLocal |-> Len(after) >= 2,
       local |-> IF Len(after) >= 2 THEN after[2] ELSE <<>>,
       remaining |-> SubSeq(after, 3, Len(after))]

\* the provider segment resolves to an entry of the schema
ResolvesIn(sh) ==
  /\ sh.provider \in DOMAIN ShortNames
  /\ ShortNames[sh.provider] \in DOMAIN schema.provider_schemas.props
EntryIn(sh) == schema.provider_schemas.props[ShortNames[sh.provider]]
\* the mapping the data flag selects (flag = TRUE) or the other one
MappingIn(sh, selected) ==
  IF sh.hasData = selected THEN EntryIn(sh).data_source_schemas.props
                           ELSE EntryIn(sh).resource_schemas.props
KeyIn(sh) == sh.provider \o "_" \o Cat(sh.local)
ProviderRefIn(sh) == sh.local # <<>> /\ sh.local[Len(sh.local)] = "Provider"

Shape == ShapeOf(path)
HasData == Shape.hasData
HasLocal == Shape.hasLocal
Remaining == Shape.remaining
RemainingCount == Len(Remaining)
ProviderResolves == ResolvesIn(Shape)
SelectedMapping == MappingIn(Shape, TRUE)
OtherMapping == MappingIn(Shape, FALSE)
ResourceKey == KeyIn(Shape)
IsProviderRef == ProviderRefIn(Shape)

(***************************************************************************)
(* C1.  Every entry point finishes by returning a value or an absence and  *)
(* never raises a fault, whatever the schema and the path.                 *)
(***************************************************************************)
C1_NoFault == pc = "done" => result # TypeErr

(***************************************************************************)
(* C3.  getDesiredType never returns an absence; it returns "dynamic" when *)
(* getTypeAtPath gave an absence, a resource schema or a bare block, and   *)
(* the very type getTypeAtPath gave when that is a primitive tag or a      *)
(* two-element descriptor.                                                 *)
(***************************************************************************)
C3_DesiredType ==
  Done("getDesiredType") =>
    /\ ~Absent(result)
    /\ (Absent(attributeType) => result = Dynamic)
    /\ (attributeType.js = "object" => result = Dynamic)
    /\ (attributeType.js \in {"string", "array"} => result = attributeType)

\* the classifier has passed a complex descriptor through, and (elsewhere)
\* turned a block into the sentinel
C3_Witness ==
  /\ Done("getDesiredType")
  /\ attributeType = Arr(Str("map"), Str("string"))
  /\ result = attributeType

(***************************************************************************)
(* C2.  As claimed: with provider aws in the schema, resource aws_instance *)
(* with attribute tags of type [map, "string"] and data source aws_ami     *)
(* with attribute id of type "string", getTypeAtPath gives [map, "string"] *)
(* on "aws_instance.tags" and "string" on "data.aws_ami.id".               *)
(***************************************************************************)
AwsEntry == schema.provider_schemas.props[AwsKey]
AwsHasInstanceTags ==
  /\ AwsKey \in DOMAIN schema.provider_schemas.props
  /\ "aws_instance" \in DOMAIN AwsEntry.resource_schemas.props
  /\ "tags" \in DOMAIN AwsEntry.resource_schemas.props["aws_instance"].block.attributes.props
  /\ AwsEntry.resource_schemas.props["aws_instance"].block.attributes.props["tags"].type
       = Arr(Str("map"), Str("string"))
AwsHasAmiId ==
  /\ AwsKey \in DOMAIN schema.provider_schemas.props
  /\ "aws_ami" \in DOMAIN AwsEntry.data_source_schemas.props
  /\ "id" \in DOMAIN AwsEntry.data_source_schemas.props["aws_ami"].block.attributes.props
  /\ AwsEntry.data_source_schemas.props["aws_ami"].block.attributes.props["id"].type
       = Str("string")

C2_Original ==
  Done("getTypeAtPath") =>
    /\ (AwsHasInstanceTags /\ PathIs(<< <<"aws_instance">>, <<"tags">> >>)
          => result = Arr(Str("map"), Str("string")))
    /\ (AwsHasAmiId /\ PathIs(<< <<"data">>, <<"aws_ami">>, <<"id">> >>)
          => result = Str("string"))

(***************************************************************************)
(* C2, amended.  The path names the provider and the local resource name   *)
(* as two segments: getTypeAtPath gives [map, "string"] on                 *)
(* "aws.instance.tags" and "string" on "data.aws.ami.id"; in general       *)
(* [data.]<provider>.<local>.<attr> gives the declared type of attribute   *)
(* attr of <provider>_<local> in the mapping the path selects, when local  *)
(* does not end in Provider and the resource has no nested block attr.     *)
(***************************************************************************)
LocalNames == {"instance", "ami"}

DeclaredAt(mapping, key, a) == mapping[key].block.attributes.props[a].type

C2_Amended ==
  Done("getTypeAtPath") =>
    /\ (AwsHasInstanceTags /\ PathIs(<< <<"aws">>, <<"instance">>, <<"tags">> >>)
          => result = Arr(Str("map"), Str("string")))
    /\ (AwsHasAmiId /\ PathIs(<< <<"data">>, <<"aws">>, <<"ami">>, <<"id">> >>)
          => result = Str("string"))
    /\ \A d \in BOOLEAN, pr \in DOMAIN ShortNames, l \in LocalNames, a \in RestNames :
         LET key == pr \o "_" \o l
             full == ShortNames[pr]
             entry == schema.provider_schemas.props[full]
             mapping == IF d THEN entry.data_source_schemas.props
                             ELSE entry.resource_schemas.props
         IN  (/\ PathIs((IF d THEN << <<"data">> >> ELSE <<>>) \o << <<pr>>, <<l>>, <<a>> >>)
              /\ full \in DOMAIN schema.provider_schemas.props
              /\ key \in DOMAIN mapping
              /\ a \in DOMAIN mapping[key].block.attributes.props
              /\ a \notin DOMAIN mapping[key].block.block_types.props)
             => result = DeclaredAt(mapping, key, a)

C2_Witness ==
  /\ Done("getTypeAtPath")
  /\ AwsHasAmiId
  /\ PathIs(<< <<"data">>, <<"aws">>, <<"ami">>, <<"id">> >>)
  /\ result = Str("string")

(***************************************************************************)
(* C4.  Bracket projection of getAttributeTypeAtPath.  With one remaining  *)
(* segment "attr[]" and attr declared with a two-element descriptor, the   *)
(* result is the attribute with the descriptor's second component as its   *)
(* type; without the marker, or with a primitive type, it is the attribute *)
(* as declared; the marker is stripped before the lookup.                  *)
(***************************************************************************)
\* the top-level attributes of the located resource
TopAttributes == resource.block.attributes.props

C4_Projection ==
  (Done("getAttributeTypeAtPath") /\ ~Falsy(resource) /\ Len(parts) = 1) =>
    \A a \in DOMAIN TopAttributes :
      LET declared == TopAttributes[a]
      IN  /\ parts[1] = <<a, "[]">> =>
               IF declared.type.js = "array"
               THEN /\ result.type = declared.type.items[2]
                    /\ [result EXCEPT !.type = declared.type] = declared
               ELSE result = declared
          /\ parts[1] = <<a>> => result = declared

\* s.replace("[]", "") applied twice is the same as applied once
StripIdempotent(seg) ==
  ReplaceFirst(ReplaceFirst(seg, "[]"), "[]") = ReplaceFirst(seg, "[]")

\* the number of "[]" markers in a segment
MarkerCount(seg) == Cardinality({ i \in 1..Len(seg) : seg[i] = "[]" })

\* as claimed: the projection, and stripping is idempotent on every segment
C4_Original ==
  /\ C4_Projection
  /\ (Done("getAttributeTypeAtPath") /\ ~Falsy(resource) /\ Len(parts) = 1)
       => StripIdempotent(parts[1])

(***************************************************************************)
(* C4, amended.  The projection as above; stripping removes the first "[]" *)
(* of the segment only, so it is idempotent on the segments that carry at  *)
(* most one marker.                                                        *)
(***************************************************************************)
C4_Amended ==
  /\ C4_Projection
  /\ (Done("getAttributeTypeAtPath") /\ ~Falsy(resource) /\ Len(parts) = 1
        /\ MarkerCount(parts[1]) <= 1)
       => /\ StripIdempotent(parts[1])
          /\ MarkerCount(ReplaceFirst(parts[1], "[]")) = 0
  /\ (Done("getAttributeTypeAtPath") /\ ~Falsy(resource) /\ Len(parts) = 1
        /\ MarkerCount(parts[1]) >= 1)
       => MarkerCount(ReplaceFirst(parts[1], "[]")) = MarkerCount(parts[1]) - 1

\* "aws.instance.tags[]": the map's element type comes back
C4_Witness ==
  /\ Done("getAttributeTypeAtPath")
  /\ ~Falsy(resource)
  /\ parts = << <<"tags", "[]">> >>
  /\ TopAttributes["tags"].type = Arr(Str("map"), Str("string"))
  /\ result = [TopAttributes["tags"] EXCEPT !.type = Str("string")]

(***************************************************************************)
(* C5.  Descent into an attribute by getTypeAtPath.  Once a segment has    *)
(* matched an attribute: no leftover segment gives the declared type       *)
(* verbatim; each leftover segment is a member name, usable only while the *)
(* current type is [list|set, [object, members]], and gives that member's  *)
(* type; an unknown member, or a leftover segment met at any other type,   *)
(* gives an absence.                                                       *)
(***************************************************************************)
RECURSIVE MemberDescent(_, _)
MemberDescent(t, names) ==
  IF names = <<>> THEN t
  ELSE IF /\ t.js = "array"
          /\ t.items[1] \in {Str("list"), Str("set")}
          /\ t.items[2].js = "array"
          /\ t.items[2].items[1] = Str("object")
       THEN LET members == t.items[2].items[2].props
            IN  IF Head(names) \in DOMAIN members
                THEN MemberDescent(members[Head(names)], Tail(names))
                ELSE Null
       ELSE Null

RECURSIVE Names(_)
Names(segs) == IF segs = <<>> THEN <<>> ELSE <<Cat(Head(segs))>> \o Names(Tail(segs))

\* the segments that were left over when the walker matched the attribute
Leftover == SubSeq(Remaining, Len(blocks) + 2, Len(Remaining))

SameOrAbsent(v, w) == v = w \/ (Absent(v) /\ Absent(w))

Collision ==
  /\ pc = "typeLoop"
  /\ ~Falsy(currentSchema)
  /\ parts # <<>>
  /\ Cat(Head(parts)) \in DOMAIN currentSchema.block.block_types.props
  /\ Cat(Head(parts)) \in DOMAIN currentSchema.block.attributes.props

C6_BlockPriority ==
  [][/\ Collision =>
          /\ currentSchema' = currentSchema.block.block_types.props[Cat(Head(parts))]
          /\ att' = Unset
          /\ pc' # "resolveAttribute"
     /\ (pc = "typeLoop" /\ pc' = "resolveAttribute") =>
          /\ Cat(Head(parts)) \notin DOMAIN currentSchema.block.block_types.props
          /\ att' = currentSchema.block.attributes.props[Cat(Head(parts))]
    ]_vars

\* "aws.instance.network.tags": a collision at the top level and one inside
\* the nested block, both resolved to the block
C6_Witness ==
  /\ Done("getTypeAtPath")
  /\ blocks = <<"network", "tags">>
  /\ "tags" \in DOMAIN NetworkBlock.block.attributes.props
  /\ att = Unset
  /\ result = TagsBlock

(***************************************************************************)
(* C7.  As claimed: when the provider short name does not resolve, or the  *)
(* key <provider>_<local> is not in the mapping the path selects, the      *)
(* three resolvers give an absence whatever follows, also when the local   *)
(* name ends with Provider, and getDesiredType gives "dynamic".            *)
(***************************************************************************)
Unresolvable(f) ==
  Done(f) => IF f = "getDesiredType" THEN result = Dynamic ELSE Absent(result)

AllUnresolvable == \A f \in EntryPoints : Unresolvable(f)

C7_Original ==
  (pc = "done" /\ result # TypeErr) =>     \* faults are the subject of C1
    LET sh == Shape
    IN  (\/ ~ResolvesIn(sh)
         \/ (sh.hasLocal /\ KeyIn(sh) \notin DOMAIN MappingIn(sh, TRUE)))
        => AllUnresolvable

(***************************************************************************)
(* C7, amended.  The same, except that a local name ending with Provider   *)
(* is exempt from the resource lookup once the provider resolves: the      *)
(* outcome is an absence (or "dynamic") when the provider does not         *)
(* resolve - whatever the local name - or when the local name does not end *)
(* with Provider and <provider>_<local> is not in the selected mapping.    *)
(***************************************************************************)
C7_Amended ==
  pc = "done" =>
    LET sh == Shape
    IN  (\/ ~ResolvesIn(sh)
         \/ (sh.hasLocal /\ ~ProviderRefIn(sh)
               /\ KeyIn(sh) \notin DOMAIN MappingIn(sh, TRUE)))
        => AllUnresolvable

\* two segments after "aws.ami", where aws_ami is a data source only
C7_Witness ==
  /\ Done("getAttributeTypeAtPath")
  /\ ProviderResolves /\ HasLocal /\ ~IsProviderRef
  /\ ResourceKey \notin DOMAIN SelectedMapping
  /\ Len(Remaining) = 2
  /\ result = Null

(***************************************************************************)
(* C8.  getAttributeTypeAtPath gives an absence unless exactly one segment *)
(* remains after the optional data segment, the provider segment and the   *)
(* resource segment: zero or several remaining segments always give an     *)
(* absence, and one remaining segment gives an absence when the located    *)
(* resource has no top-level attribute of that (bracket-stripped) name.    *)
(***************************************************************************)
\* the located subtree declares the attribute the single segment names
NamesTopAttribute ==
  /\ ~Falsy(resource)
  /\ Cat(ReplaceFirst(Remaining[1], "[]")) \in DOMAIN TopAttributes

C8_ExactlyOne ==
  Done("getAttributeTypeAtPath") =>
    /\ RemainingCount # 1 => Absent(result)
    /\ (RemainingCount = 1 /\ ~NamesTopAttribute) => Absent(result)

(***************************************************************************)
(* C9.  getResourceAtPath chooses the mapping by the leading data segment  *)
(* alone: a data path is looked up in data_source_schemas only, any other  *)
(* path in resource_schemas only.  A name defined in the other mapping     *)
(* alone is absent, and a name defined in both resolves, in each path      *)
(* form, against its own mapping.                                          *)
(***************************************************************************)
InsideCall == pc \notin {"idle", "call"}

RECURSIVE FollowBlocks(_, _)
FollowBlocks(b, names) ==
  IF names = <<>> THEN b
  ELSE FollowBlocks(b.block.block_types.props[Head(names)], Tail(names))

IsBlockShaped(v) == v.js = "object" /\ "block" \in DOMAIN v

C10_NeverTheRoot ==
  \A f \in {"getBlockTypeAtPath", "getTypeAtPath"} :
    Done(f) =>
      /\ IsBlockShaped(result) =>
           /\ Len(blocks) >= 1
           /\ Len(blocks) <= Len(Remaining)
           /\ blocks = SubSeq(Names(Remaining), 1, Len(blocks))
           /\ result = FollowBlocks(resource, blocks)
           /\ result # resource
           /\ "version" \notin DOMAIN result
      /\ (HasLocal /\ IsProviderRef /\ Remaining = <<>>) => Absent(result)

\* "aws.awsProvider": the provider block is located, no segment remains
C10_Witness ==
  /\ Done("getTypeAtPath")
  /\ ProviderResolves /\ HasLocal /\ IsProviderRef
  /\ Remaining = <<>>
  /\ "version" \in DOMAIN resource
  /\ result = Null
====
